---- MODULE Spec2Model ----
(***************************************************************************)
(* A model of obfuscate_tool.py: the orchestrator obfuscate_file, the      *)
(* file-location parser parse_s3_path, the format resolver get_file_type,  *)
(* and the three decode / mask / encode pipelines (CSV, JSON, Parquet).    *)
(*                                                                         *)
(* Strings that the code takes apart (S3 paths and keys) are sequences of  *)
(* one-character strings.  Field names and cell values are atomic strings. *)
(***************************************************************************)
EXTENDS Integers, Sequences, FiniteSets, TLC

VARIABLES
    event,          \* the request: file_to_obfuscate and pii_fields
    pc,             \* position inside obfuscate_file
    s3_bucket,      \* obfuscate_file's s3_bucket (after parse_s3_path)
    s3_key,         \* obfuscate_file's s3_key
    file_type,      \* obfuscate_file's file_type
    s3_response,    \* the storage collaborator's answer: "" before the fetch
    file_content,   \* the bytes the storage collaborator returned
    reader,         \* process_csv's csv.DictReader: fieldnames and unread rows
    records,        \* the RecordSet being built / masked
    row,            \* process_csv's loop variable: the row just read, not yet appended
    cursor,         \* index of the next record (or pii field) the mask loop visits
    output,         \* the returned byte stream, as a token sequence
    error,          \* the exception that left obfuscate_file, if any
    log             \* history: the pipeline stages executed so far, in order

vars == <<event, pc, s3_bucket, s3_key, file_type, s3_response, file_content, reader,
          records, row, cursor, output, error, log>>

----------------------------------------------------------------------------
(* Bounds of the model. *)

\* longest stem put in front of a candidate suffix / path piece
MaxStem == 2
\* longest remainder after the scheme of a candidate S3 path
MaxRest == 3
\* most records (rows) in one file
MaxRecords == 2
\* most names in pii_fields
MaxFields == 2

----------------------------------------------------------------------------
(* Character strings. *)

EmptyStr == <<>>

Range(f) == {f[i] : i \in 1..Len(f)}

\* str.startswith
StartsWith(s, p) == Len(s) >= Len(p) /\ SubSeq(s, 1, Len(p)) = p

\* str.endswith
EndsWith(s, p) == Len(s) >= Len(p) /\ SubSeq(s, Len(s) - Len(p) + 1, Len(s)) = p

\* all sequences over S of length at most n
RECURSIVE SeqsUpTo(_, _)
SeqsUpTo(S, n) ==
    IF n = 0 THEN {<<>>}
    ELSE LET shorter == SeqsUpTo(S, n - 1)
         IN  shorter \cup {Append(q, c) : q \in shorter, c \in S}

S3Scheme == <<"s", "3", ":", "/", "/">>
\* the 5 of s3_path[5:]
SchemeLen == 5

CsvSuffix == <<".", "c", "s", "v">>
JsonSuffix == <<".", "j", "s", "o", "n">>
ParquetSuffix == <<".", "p", "a", "r", "q", "u", "e", "t">>

----------------------------------------------------------------------------
(* get_file_type *)

get_file_type_anycase(key) ==
    LET lower(c) == CASE c = "C" -> "c" [] c = "S" -> "s" [] c = "V" -> "v"
                      [] c = "J" -> "j" [] c = "O" -> "o" [] c = "N" -> "n"
                      [] OTHER -> c
        k == [i \in 1..Len(key) |-> lower(key[i])]
    IN  IF EndsWith(k, CsvSuffix) THEN "csv"
        ELSE IF EndsWith(k, JsonSuffix) THEN "json"
        ELSE IF EndsWith(k, ParquetSuffix) THEN "parquet"
        ELSE "unknown"

get_file_type(key) ==
    IF EndsWith(key, CsvSuffix) THEN "csv"
    ELSE IF EndsWith(key, JsonSuffix) THEN "json"
    ELSE IF EndsWith(key, ParquetSuffix) THEN "parquet"
    ELSE "unknown"

----------------------------------------------------------------------------
(* parse_s3_path *)

\* position of the first "/" in s, 0 when there is none
FirstSlash(s) ==
    IF \E i \in 1..Len(s) : s[i] = "/"
    THEN CHOOSE i \in 1..Len(s) : s[i] = "/" /\ \A j \in 1..(i - 1) : s[j] # "/"
    ELSE 0

\* str.split("/", 1): at most one split, at the first separator
SplitOnce(s) ==
    LET i == FirstSlash(s)
    IN  IF i = 0 THEN <<s>>
        ELSE <<SubSeq(s, 1, i - 1), SubSeq(s, i + 1, Len(s))>>

MsgBadScheme == "Invalid S3 path. It must start with 's3://'."
MsgNoKey == "S3 path must include both bucket and key."

ParseFailure(m) == [ok |-> FALSE, msg |-> m, bucket |-> EmptyStr, key |-> EmptyStr]

parse_s3_path(s3_path) ==
    IF ~StartsWith(s3_path, S3Scheme) THEN ParseFailure(MsgBadScheme)
    ELSE LET path_parts == SplitOnce(SubSeq(s3_path, SchemeLen + 1, Len(s3_path)))
         IN  IF Len(path_parts) # 2 THEN ParseFailure(MsgNoKey)
             ELSE [ok |-> TRUE, msg |-> "", bucket |-> path_parts[1],
                   key |-> path_parts[2]]

----------------------------------------------------------------------------
(* Dynamically typed values (a CSV cell, a JSON value, a Parquet cell).    *)
(* Every value is a record of the same shape, so that any two compare:     *)
(*   t      the Python type: "str", "num", "null", "obj" (dict), "arr"      *)
(*   s      the text of a str or num                                        *)
(*   items  the <<key, value>> pairs of a dict, in insertion order; the     *)
(*          elements of a list, each paired with the key ""                 *)

Str(s) == [t |-> "str", s |-> s, items |-> <<>>]
Num(s) == [t |-> "num", s |-> s, items |-> <<>>]
Null == [t |-> "null", s |-> "", items |-> <<>>]
Obj(pairs) == [t |-> "obj", s |-> "", items |-> pairs]
Arr(elems) == [t |-> "arr", s |-> "", items |-> [i \in 1..Len(elems) |-> <<"", elems[i]>>]]

Elems(v) == [i \in 1..Len(v.items) |-> v.items[i][2]]

\* the obfuscated text "***"
Sentinel == Str("***")

\* the text csv.writer writes for a cell: None is written as ""
CellText(v) == IF v.t = "null" THEN "" ELSE v.s

\* csv.DictReader's restkey: the key None
NoneKey == "<None>"

(* dict operations on a sequence of <<key, value>> pairs *)
Keys(d) == [i \in 1..Len(d) |-> d[i][1]]
HasKey(d, k) == \E i \in 1..Len(d) : d[i][1] = k
DictGet(d, k) == d[CHOOSE i \in 1..Len(d) : d[i][1] = k][2]
\* d[k] = v: an existing key keeps its place, a new key goes last
DictSet(d, k, v) ==
    IF HasKey(d, k)
    THEN [i \in 1..Len(d) |-> IF d[i][1] = k THEN <<k, v>> ELSE d[i]]
    ELSE Append(d, <<k, v>>)

\* the characters of the strings the model uses, for Python's substring test
Chars(s) ==
    CASE s = "name" -> <<"n", "a", "m", "e">>
      [] s = "email" -> <<"e", "m", "a", "i", "l">>
      [] s = "zip" -> <<"z", "i", "p">>
      [] s = "id" -> <<"i", "d">>
      [] s = "profile" -> <<"p", "r", "o", "f", "i", "l", "e">>
      [] s = "surname" -> <<"s", "u", "r", "n", "a", "m", "e">>
      [] s = "John" -> <<"J", "o", "h", "n">>
      [] s = "Jane" -> <<"J", "a", "n", "e">>
      [] s = "e1" -> <<"e", "1">>
      [] s = "e2" -> <<"e", "2">>
      [] s = "" -> <<>>
      [] OTHER -> <<s>>

\* a in b, for two str
IsSubstring(a, b) ==
    LET ca == Chars(a)
        cb == Chars(b)
    IN  \E i \in 0..(Len(cb) - Len(ca)) : SubSeq(cb, i + 1, i + Len(ca)) = ca

----------------------------------------------------------------------------
(* The mask, shared by process_csv and process_json:                       *)
(*     for field in pii_fields:                                            *)
(*         if field in row: row[field] = "***"                             *)

\* "row[field] = '***'" without the test "field in row"
MaskFieldAlways(d, field) == DictSet(d, field, Sentinel)

\* "row[field] += '***'" in place of the assignment
MaskFieldAppend(d, field) ==
    IF HasKey(d, field)
    THEN DictSet(d, field, Str(CellText(DictGet(d, field)) \o "***"))
    ELSE d

\* the assignment made only where the value is a str
MaskFieldStrOnly(d, field) ==
    IF HasKey(d, field) /\ DictGet(d, field).t = "str" THEN DictSet(d, field, Sentinel) ELSE d

MaskField(d, field) ==
    IF HasKey(d, field) THEN DictSet(d, field, Sentinel) ELSE d

RECURSIVE MaskDict(_, _)
MaskDict(d, pii_fields) ==
    IF pii_fields = <<>> THEN d
    ELSE MaskDict(MaskField(d, Head(pii_fields)), Tail(pii_fields))

----------------------------------------------------------------------------
(* CSV.  The text of a file is modelled by the rows csv.reader yields from *)
(* it: a sequence of rows, each a sequence of cell strings (an empty line  *)
(* is the row <<>>).  Cells of the model need no quoting.                  *)

\* dict(zip(fieldnames, row)), built left to right
RECURSIVE ZipDict(_, _, _)
ZipDict(names, cells, d) ==
    IF names = <<>> \/ cells = <<>> THEN d
    ELSE ZipDict(Tail(names), Tail(cells), DictSet(d, Head(names), Str(Head(cells))))

\* for key in fieldnames[lr:]: d[key] = restval (None)
RECURSIVE FillRest(_, _)
FillRest(names, d) ==
    IF names = <<>> THEN d
    ELSE FillRest(Tail(names), DictSet(d, Head(names), Null))

\* the dict csv.DictReader.__next__ builds from one non-empty row
DictReaderRow(fieldnames, cells) ==
    LET lf == Len(fieldnames)
        lr == Len(cells)
        d == ZipDict(fieldnames, cells, <<>>)
    IN  IF lf < lr
        THEN DictSet(d, NoneKey, Arr([i \in 1..(lr - lf) |-> Str(cells[lf + i])]))
        ELSE IF lf > lr
        THEN FillRest(SubSeq(fieldnames, lr + 1, lf), d)
        ELSE d

\* "while row == []: row = next(self.reader)"
RECURSIVE SkipEmptyRows(_)
SkipEmptyRows(rows) ==
    IF rows # <<>> /\ Head(rows) = <<>> THEN SkipEmptyRows(Tail(rows)) ELSE rows

\* a DictReader that has read nothing yet
NewReader(rows) == [has_fieldnames |-> FALSE, fieldnames |-> <<>>, rest |-> rows]
NoReader == NewReader(<<>>)

\* the fieldnames property: the first access reads the first row, if any
ReadFieldnames(rd) ==
    IF rd.has_fieldnames \/ rd.rest = <<>> THEN rd
    ELSE [has_fieldnames |-> TRUE, fieldnames |-> Head(rd.rest), rest |-> Tail(rd.rest)]

\* one line of csv.writer with lineterminator "\n"
CsvLine(cells) ==
    [i \in 1..(2 * Len(cells)) |->
        IF i % 2 = 1 THEN cells[(i + 1) \div 2]
        ELSE IF i = 2 * Len(cells) THEN "\n" ELSE ","]
    \o (IF cells = <<>> THEN <<"\n">> ELSE <<>>)

\* DictWriter._dict_to_list: extrasaction = "raise", restval = ""
HasExtraKeys(fieldnames, rowdict) ==
    \E i \in 1..Len(rowdict) : \A j \in 1..Len(fieldnames) : fieldnames[j] # rowdict[i][1]

DictToList(fieldnames, rowdict) ==
    [j \in 1..Len(fieldnames) |->
        IF HasKey(rowdict, fieldnames[j]) THEN CellText(DictGet(rowdict, fieldnames[j]))
        ELSE ""]

RECURSIVE WriteRows(_, _)
WriteRows(fieldnames, rows) ==
    IF rows = <<>> THEN <<>>
    ELSE CsvLine(DictToList(fieldnames, Head(rows))) \o WriteRows(fieldnames, Tail(rows))

Encoded(out) == [ok |-> TRUE, err |-> "", out |-> out]
EncodeFailure(e) == [ok |-> FALSE, err |-> e, out |-> <<>>]

\* obfuscated_data = [has_header, header, rows]
convert_to_csv_stream(obfuscated_data) ==
    IF ~obfuscated_data.has_header
    THEN EncodeFailure("TypeError")          \* fieldnames is None
    ELSE IF \E i \in 1..Len(obfuscated_data.rows) :
                HasExtraKeys(obfuscated_data.header, obfuscated_data.rows[i])
    THEN EncodeFailure("ValueError")         \* dict contains fields not in fieldnames
    ELSE Encoded(CsvLine(obfuscated_data.header)
                 \o WriteRows(obfuscated_data.header, obfuscated_data.rows))

----------------------------------------------------------------------------
(* JSON.  The bytes of a file are modelled by the value json.loads returns *)
(* for them, or by their being undecodable.                                *)

\* what "for record in records" visits; only list, dict and str iterate
Iterable(v) == v.t \in {"arr", "obj", "str"}
IterItems(v) ==
    IF v.t = "arr" THEN Elems(v)
    ELSE IF v.t = "obj" THEN [i \in 1..Len(v.items) |-> Str(v.items[i][1])]
    ELSE IF v.t = "str" THEN [i \in 1..Len(Chars(v.s)) |-> Str(Chars(v.s)[i])]
    ELSE <<>>

\* "field in record" raises TypeError for a number, a bool or None
ContainsDefined(record) == record.t \in {"arr", "obj", "str"}
Contains(record, field) ==
    IF record.t = "obj" THEN HasKey(record.items, field)
    ELSE IF record.t = "str" THEN IsSubstring(field, record.s)
    ELSE IF record.t = "arr" THEN \E i \in 1..Len(record.items) : record.items[i][2] = Str(field)
    ELSE FALSE

\* a mask that also descends into nested dicts and lists
RECURSIVE DeepMask(_, _)
DeepMask(v, fields) ==
    IF v.t \notin {"obj", "arr"} THEN v
    ELSE [v EXCEPT !.items =
            [n \in 1..Len(v.items) |->
                IF v.t = "obj" /\ v.items[n][1] \in Range(fields)
                THEN <<v.items[n][1], Sentinel>>
                ELSE <<v.items[n][1], DeepMask(v.items[n][2], fields)>>]]

MaskJsonRecordDeep(record, fields) ==
    IF record.t = "obj" THEN [ok |-> TRUE, rec |-> DeepMask(record, fields)]
    ELSE [ok |-> FALSE, rec |-> record]

\* the inner loop of process_json on one record: [ok, rec]
RECURSIVE MaskJsonRecord(_, _)
MaskJsonRecord(record, pii_fields) ==
    IF pii_fields = <<>> THEN [ok |-> TRUE, rec |-> record]
    ELSE IF ~ContainsDefined(record) THEN [ok |-> FALSE, rec |-> record]
    ELSE IF ~Contains(record, Head(pii_fields))
         THEN MaskJsonRecord(record, Tail(pii_fields))
    ELSE IF record.t # "obj" THEN [ok |-> FALSE, rec |-> record]   \* no item assignment
    ELSE MaskJsonRecord(Obj(MaskField(record.items, Head(pii_fields))), Tail(pii_fields))

\* the indent of json.dumps(..., indent=2)
Indent == 2

NewLine(depth) == <<"\n">> \o [i \in 1..(Indent * depth) |-> " "]

\* json.dumps(v, indent=2) as a token sequence
RECURSIVE Dumps(_, _)
RECURSIVE DumpItems(_, _, _)
DumpItems(items, isObj, depth) ==
    IF items = <<>> THEN <<>>
    ELSE NewLine(depth)
         \o (IF isObj THEN <<"\"", Head(items)[1], "\"", ": ">> ELSE <<>>)
         \o Dumps(Head(items)[2], depth)
         \o (IF Len(items) > 1 THEN <<",">> ELSE <<>>)
         \o DumpItems(Tail(items), isObj, depth)
Dumps(v, depth) ==
    IF v.t = "str" THEN <<"\"", v.s, "\"">>
    ELSE IF v.t = "num" THEN <<v.s>>
    ELSE IF v.t = "null" THEN <<"null">>
    ELSE IF v.t = "arr"
         THEN IF v.items = <<>> THEN <<"[]">>
              ELSE <<"[">> \o DumpItems(v.items, FALSE, depth + 1) \o NewLine(depth) \o <<"]">>
    ELSE IF v.items = <<>> THEN <<"{}">>
         ELSE <<"{">> \o DumpItems(v.items, TRUE, depth + 1) \o NewLine(depth) \o <<"}">>

convert_to_json_stream(obfuscated_data) == Encoded(Dumps(obfuscated_data, 0))

----------------------------------------------------------------------------
(* Parquet.  The bytes of a file are modelled by the DataFrame             *)
(* pd.read_parquet returns for them: a sequence of columns [name, dtype,   *)
(* values] with distinct names and values aligned by row.                  *)

ColumnNames(df) == [j \in 1..Len(df) |-> df[j].name]
HasColumn(df, field) == \E j \in 1..Len(df) : df[j].name = field

\* "if field in df.columns: df[field] = '***'": the whole column, as objects
MaskColumn(df, field) ==
    IF HasColumn(df, field)
    THEN [j \in 1..Len(df) |->
            IF df[j].name = field
            THEN [name |-> field, dtype |-> "object",
                  values |-> [i \in 1..Len(df[j].values) |-> Sentinel]]
            ELSE df[j]]
    ELSE df

RECURSIVE DumpColumns(_)
DumpColumns(df) ==
    IF df = <<>> THEN <<>>
    ELSE <<"column", Head(df).name, Head(df).dtype>>
         \o [i \in 1..Len(Head(df).values) |-> CellText(Head(df).values[i])]
         \o DumpColumns(Tail(df))

\* DataFrame.to_parquet(index=False): the columns, no index column
convert_to_parquet_stream(obfuscated_data) == Encoded(<<"PAR1">> \o DumpColumns(obfuscated_data))

----------------------------------------------------------------------------
(* The inputs: requests, and what the storage collaborator may hold.       *)

Bucket == <<"b">>
KeyStem == <<"k">>
PathTo(key) == S3Scheme \o Bucket \o <<"/">> \o key

\* file_to_obfuscate values: [present, s]; event.get gives None when absent
FilePaths ==
    { PathTo(KeyStem \o CsvSuffix),
      PathTo(KeyStem \o JsonSuffix),
      PathTo(KeyStem \o ParquetSuffix),
      PathTo(<<"d", "/">> \o KeyStem \o ParquetSuffix),
      PathTo(KeyStem \o <<".", "t", "x", "t">>),
      PathTo(KeyStem \o <<".", "C", "S", "V">>),
      PathTo(EmptyStr),
      S3Scheme \o Bucket \o CsvSuffix,
      Bucket \o <<"/">> \o KeyStem \o CsvSuffix,
      <<"s", "3", ":", "/">> \o Bucket \o <<"/">> \o KeyStem \o <<".", "t", "x", "t">> }

FileValues ==
    {[present |-> FALSE, s |-> EmptyStr], [present |-> TRUE, s |-> EmptyStr]}
    \cup {[present |-> TRUE, s |-> p] : p \in FilePaths}

FieldNames == {"name", "email", "zip"}

\* pii_fields values: [kind, items]; kind "absent" takes the default [],
\* kind "tuple" is a value that is not a list
FieldValues ==
    {[kind |-> "absent", items |-> <<>>], [kind |-> "tuple", items |-> <<"name">>],
     [kind |-> "tuple", items |-> <<>>]}
    \cup {[kind |-> "list", items |-> f] : f \in SeqsUpTo(FieldNames, MaxFields)}

Events == [file : FileValues, fields : FieldValues]

\* what the storage collaborator may answer
StorageOutcomes == {"ok", "NoSuchKey", "AccessDenied", "EndpointConnectionError"}

Content(d) == [valid |-> TRUE, data |-> d]

CsvHeaders == {<<"id", "name", "email">>, <<"name", "id">>, <<"name", "name">>}
CsvRowPool ==
    {<<"1", "John", "e1">>, <<"1", "Jane", "e2">>, <<"John", "1">>, <<>>}
CsvContents ==
    {Content(<<h>> \o rs) : h \in CsvHeaders, rs \in SeqsUpTo(CsvRowPool, MaxRecords)}
    \cup {Content(<<>>), [valid |-> FALSE, data |-> <<>>]}

Person1 == Obj(<< <<"id", Num("1")>>, <<"name", Str("John")>>, <<"email", Str("e1")>> >>)
Person2 == Obj(<< <<"id", Num("1")>>, <<"name", Str("Jane")>>, <<"email", Num("7")>> >>)
Nested1 ==
    Obj(<< <<"name", Null>>,
           <<"profile", Obj(<< <<"email", Str("e1")>>, <<"name", Str("John")>> >>)>> >>)
Nested2 ==
    Obj(<< <<"email", Obj(<< <<"primary", Str("e1")>> >>)>>,
           <<"contacts", Arr(<< Obj(<< <<"email", Str("e2")>> >>) >>)>> >>)
JsonElementPool ==
    {Person1, Person2, Nested1, Nested2, Str("id"), Arr(<<Str("name")>>)}
JsonContents ==
    {Content(Arr(es)) : es \in SeqsUpTo(JsonElementPool, MaxRecords)}
    \cup {Content(Person1), Content(Obj(<< <<"data", Arr(<<Person1>>)>> >>)),
          Content(Arr(<<Person1, Str("surname")>>)), Content(Arr(<<Person1, Num("1")>>)),
          Content(Str("John")), Content(Num("5")), Content(Null),
          [valid |-> FALSE, data |-> Null]}

\* a DataFrame from column names, dtypes and rows of cells
Frame(names, dtypes, rows) ==
    [j \in 1..Len(names) |->
        [name |-> names[j], dtype |-> dtypes[j],
         values |-> [i \in 1..Len(rows) |-> rows[i][j]]]]
PersonRows ==
    {<<Num("1"), Str("John"), Str("e1")>>, <<Num("1"), Str("Jane"), Str("e2")>>,
     <<Num("2"), Str("John"), Null>>}
NumericRows == {<<Num("7"), Num("1")>>, <<Num("8"), Num("1")>>}
NamedRows == {<<Str("John"), Num("1")>>, <<Null, Num("1")>>}
ParquetContents ==
    {Content(Frame(<<"id", "name", "email">>, <<"int64", "object", "object">>, rs)) :
        rs \in SeqsUpTo(PersonRows, MaxRecords)}
    \cup {Content(Frame(<<"name", "id">>, <<"int64", "int64">>, rs)) :
            rs \in SeqsUpTo(NumericRows, MaxRecords)}
    \cup {Content(Frame(<<"name", "id">>, <<"object", "int64">>, rs)) :
            rs \in SeqsUpTo(NamedRows, MaxRecords)}
    \cup {[valid |-> FALSE, data |-> <<>>]}

ContentsFor(type) ==
    IF type = "csv" THEN CsvContents
    ELSE IF type = "json" THEN JsonContents
    ELSE ParquetContents

----------------------------------------------------------------------------
(* Exceptions: [type, msg, key, bucket, path, cause].                      *)

NoError ==
    [type |-> "none", msg |-> "", key |-> EmptyStr, bucket |-> EmptyStr,
     path |-> EmptyStr, cause |-> ""]
Raise(type, msg) == [NoError EXCEPT !.type = type, !.msg = msg]

MsgNoFile == "'file_to_obfuscate' must be provided in the input JSON."
MsgNoFields == "'pii_fields' must be a non-empty list."
MsgBadPath == "Invalid S3 file path"
MsgBadType == "Unsupported file type"
MsgNotFound == "The file does not exist in bucket"

\* the two input checks of obfuscate_file: the message raised, "" when both pass
ValidateInputFieldsFirst(ev) ==
    IF ev.fields.items = <<>> \/ ev.fields.kind # "list" THEN MsgNoFields
    ELSE IF ~ev.file.present \/ ev.file.s = EmptyStr THEN MsgNoFile
    ELSE ""

ValidateInput(ev) ==
    IF ~ev.file.present \/ ev.file.s = EmptyStr THEN MsgNoFile
    ELSE IF ev.fields.items = <<>> \/ ev.fields.kind # "list" THEN MsgNoFields
    ELSE ""

\* the history of stages: a stage is logged once per consecutive run of it
LogStage(l, stage) == IF l # <<>> /\ l[Len(l)] = stage THEN l ELSE Append(l, stage)

pii_fields == event.fields.items

----------------------------------------------------------------------------
(* obfuscate_file, step by step. *)

Init ==
    /\ event \in Events
    /\ pc = "start"
    /\ s3_bucket = EmptyStr
    /\ s3_key = EmptyStr
    /\ file_type = ""
    /\ s3_response = ""
    /\ file_content = [valid |-> FALSE, data |-> <<>>]
    /\ reader = NoReader
    /\ records = <<>>
    /\ row = <<>>
    /\ cursor = 0
    /\ output = <<>>
    /\ error = NoError
    /\ log = <<>>

\* the exception e leaves obfuscate_file
Fail(e) == pc' = "failed" /\ error' = e

\* "Validate input"
Validate ==
    /\ pc = "start"
    /\ LET m == ValidateInput(event)
       IN  IF m # "" THEN Fail(Raise("ValueError", m))
           ELSE pc' = "parse" /\ UNCHANGED error
    /\ UNCHANGED <<event, s3_bucket, s3_key, file_type, s3_response, file_content, reader,
                   records, row, cursor, output, log>>

\* "Extract S3 bucket and key"
ParsePath ==
    /\ pc = "parse"
    /\ LET r == parse_s3_path(event.file.s)
       IN  IF ~r.ok
           THEN /\ Fail([Raise("ValueError", MsgBadPath) EXCEPT
                            !.path = event.file.s, !.cause = r.msg])
                /\ UNCHANGED <<s3_bucket, s3_key>>
           ELSE /\ pc' = "resolve"
                /\ s3_bucket' = r.bucket
                /\ s3_key' = r.key
                /\ UNCHANGED error
    /\ UNCHANGED <<event, file_type, s3_response, file_content, reader, records, row, cursor,
                   output, log>>

\* "Determine file type"
ResolveType ==
    /\ pc = "resolve"
    /\ file_type' = get_file_type(s3_key)
    /\ IF file_type' \notin {"csv", "json", "parquet"}
       THEN Fail([Raise("ValueError", MsgBadType) EXCEPT !.cause = file_type'])
       ELSE pc' = "download" /\ UNCHANGED error
    /\ UNCHANGED <<event, s3_bucket, s3_key, s3_response, file_content, reader, records, row,
                   cursor, output, log>>

\* the "except ClientError" clause of obfuscate_file: the exception that
\* leaves it when the collaborator fails with `outcome`
StorageErrorAllNotFound(outcome, bucket, key) ==
    IF outcome \in {"NoSuchKey", "AccessDenied"}
    THEN [Raise("FileNotFoundError", MsgNotFound) EXCEPT !.key = key, !.bucket = bucket]
    ELSE [Raise(outcome, outcome) EXCEPT !.cause = outcome]

StorageError(outcome, bucket, key) ==
    IF outcome = "NoSuchKey"
    THEN [Raise("FileNotFoundError", MsgNotFound) EXCEPT !.key = key, !.bucket = bucket]
    ELSE IF outcome = "AccessDenied"
    THEN [Raise("ClientError", outcome) EXCEPT !.cause = outcome]
    ELSE [Raise(outcome, outcome) EXCEPT !.cause = outcome]

\* "Download the file from S3": the collaborator answers with the content or
\* fails, with a ClientError (NoSuchKey, AccessDenied) or with another exception
Download ==
    /\ pc = "download"
    /\ log' = LogStage(log, "fetch")
    /\ \E outcome \in StorageOutcomes :
         /\ s3_response' = outcome
         /\ IF outcome = "ok"
            THEN /\ \E c \in ContentsFor(file_type) : file_content' = c
                 /\ pc' = "process"
                 /\ UNCHANGED error
            ELSE /\ Fail(StorageError(outcome, s3_bucket, s3_key))
                 /\ UNCHANGED file_content
    /\ UNCHANGED <<event, s3_bucket, s3_key, file_type, reader, records, row,
                   cursor, output>>

(* process_csv *)

\* file_content.decode("utf-8"), csv.DictReader(input_stream), obfuscated_rows = []
CsvOpen ==
    /\ pc = "process" /\ file_type = "csv"
    /\ IF ~file_content.valid
       THEN Fail(Raise("UnicodeDecodeError", "")) /\ UNCHANGED reader
       ELSE pc' = "csv_next" /\ reader' = NewReader(file_content.data) /\ UNCHANGED error
    /\ UNCHANGED <<event, s3_bucket, s3_key, file_type, s3_response, file_content, records, row,
                   cursor, output, log>>

\* "for row in reader": DictReader.__next__ reads the header on its first
\* call, then the next non-empty row; at the end of the input the loop ends
\* and process_csv returns (reader.fieldnames is read once more there)
CsvNext ==
    /\ pc = "csv_next"
    /\ LET rd == ReadFieldnames(reader)
           rest == SkipEmptyRows(rd.rest)
       IN  IF rest = <<>>
           THEN /\ reader' = [rd EXCEPT !.rest = <<>>]
                /\ pc' = "encode"
                /\ log' = IF rd # reader THEN LogStage(log, "decode") ELSE log
                /\ UNCHANGED row
           ELSE /\ reader' = [rd EXCEPT !.rest = Tail(rest)]
                /\ row' = DictReaderRow(rd.fieldnames, Head(rest))
                /\ pc' = "csv_mask"
                /\ log' = LogStage(log, "decode")
    /\ UNCHANGED <<event, s3_bucket, s3_key, file_type, s3_response, file_content, records,
                   cursor, output, error>>

\* the inner loop over pii_fields, then obfuscated_rows.append(row)
CsvMask ==
    /\ pc = "csv_mask"
    /\ records' = Append(records, MaskDict(row, pii_fields))
    /\ row' = <<>>
    /\ pc' = "csv_next"
    /\ log' = LogStage(log, "mask")
    /\ UNCHANGED <<event, s3_bucket, s3_key, file_type, s3_response, file_content, reader,
                   cursor, output, error>>

(* process_json *)

\* records = json.loads(file_content.decode("utf-8"))
JsonLoad ==
    /\ pc = "process" /\ file_type = "json"
    /\ IF ~file_content.valid
       THEN Fail(Raise("JSONDecodeError", "")) /\ UNCHANGED <<records, cursor, log>>
       ELSE /\ records' = file_content.data
            /\ cursor' = 1
            /\ pc' = "json_mask"
            /\ log' = LogStage(log, "decode")
            /\ UNCHANGED error
    /\ UNCHANGED <<event, s3_bucket, s3_key, file_type, s3_response, file_content, reader, row,
                   output>>

\* "return records" indented into the loop: process_json returns after the
\* first record
JsonMaskReturnsInLoop ==
    /\ pc = "json_mask"
    /\ IF ~Iterable(records)
       THEN Fail(Raise("TypeError", "not iterable")) /\ UNCHANGED <<records, cursor, log>>
       ELSE IF cursor > Len(IterItems(records))
       THEN pc' = "encode" /\ UNCHANGED <<records, cursor, log, error>>
       ELSE LET r == MaskJsonRecord(IterItems(records)[cursor], pii_fields)
            IN  /\ log' = LogStage(log, "mask")
                /\ IF ~r.ok
                   THEN Fail(Raise("TypeError", "record")) /\ UNCHANGED <<records, cursor>>
                   ELSE /\ records' =
                             IF records.t = "arr"
                             THEN [records EXCEPT !.items[cursor] = <<"", r.rec>>]
                             ELSE records
                        /\ cursor' = cursor + 1
                        /\ pc' = "encode"
                        /\ UNCHANGED error
    /\ UNCHANGED <<event, s3_bucket, s3_key, file_type, s3_response, file_content,
                   reader, row, output>>

\* one turn of "for record in records": the record is masked in place
JsonMask ==
    /\ pc = "json_mask"
    /\ IF ~Iterable(records)
       THEN Fail(Raise("TypeError", "not iterable")) /\ UNCHANGED <<records, cursor, log>>
       ELSE IF cursor > Len(IterItems(records))
       THEN pc' = "encode" /\ UNCHANGED <<records, cursor, log, error>>
       ELSE LET r == MaskJsonRecord(IterItems(records)[cursor], pii_fields)
            IN  /\ log' = LogStage(log, "mask")
                /\ IF ~r.ok
                   THEN Fail(Raise("TypeError", "record")) /\ UNCHANGED <<records, cursor>>
                   ELSE /\ records' =
                             IF records.t = "arr"
                             THEN [records EXCEPT !.items[cursor] = <<"", r.rec>>]
                             ELSE records
                        /\ cursor' = cursor + 1
                        /\ UNCHANGED <<pc, error>>
    /\ UNCHANGED <<event, s3_bucket, s3_key, file_type, s3_response, file_content, reader, row,
                   output>>

(* process_parquet *)

\* df = pd.read_parquet(input_stream)
ParquetRead ==
    /\ pc = "process" /\ file_type = "parquet"
    /\ IF ~file_content.valid
       THEN Fail(Raise("ArrowInvalid", "")) /\ UNCHANGED <<records, cursor, log>>
       ELSE /\ records' = file_content.data
            /\ cursor' = 1
            /\ pc' = "parquet_mask"
            /\ log' = LogStage(log, "decode")
            /\ UNCHANGED error
    /\ UNCHANGED <<event, s3_bucket, s3_key, file_type, s3_response, file_content, reader, row,
                   output>>

\* one turn of "for field in pii_fields"
ParquetMask ==
    /\ pc = "parquet_mask"
    /\ IF cursor > Len(pii_fields)
       THEN pc' = "encode" /\ UNCHANGED <<records, cursor, log>>
       ELSE /\ records' = MaskColumn(records, pii_fields[cursor])
            /\ cursor' = cursor + 1
            /\ log' = LogStage(log, "mask")
            /\ UNCHANGED pc
    /\ UNCHANGED <<event, s3_bucket, s3_key, file_type, s3_response, file_content, reader, row,
                   output, error>>

\* what the process_* function returned, in the form its converter takes
Obfuscated ==
    IF file_type = "csv"
    THEN [has_header |-> reader.has_fieldnames, header |-> reader.fieldnames,
          rows |-> records]
    ELSE records

\* convert_to_csv_stream / convert_to_json_stream / convert_to_parquet_stream
Convert(type, obfuscated_data) ==
    IF type = "csv" THEN convert_to_csv_stream(obfuscated_data)
    ELSE IF type = "json" THEN convert_to_json_stream(obfuscated_data)
    ELSE convert_to_parquet_stream(obfuscated_data)

\* "return convert_to_..._stream(obfuscated_data)"
Encode ==
    /\ pc = "encode"
    /\ log' = LogStage(log, "encode")
    /\ LET r == Convert(file_type, Obfuscated)
       IN  IF r.ok
           THEN pc' = "done" /\ output' = r.out /\ UNCHANGED error
           ELSE Fail(Raise(r.err, "")) /\ UNCHANGED output
    /\ UNCHANGED <<event, s3_bucket, s3_key, file_type, s3_response, file_content, reader,
                   records, row, cursor>>

Next ==
    \/ Validate
    \/ ParsePath
    \/ ResolveType
    \/ Download
    \/ CsvOpen
    \/ CsvNext
    \/ CsvMask
    \/ JsonLoad
    \/ JsonMask
    \/ ParquetRead
    \/ ParquetMask
    \/ Encode

Spec == Init /\ [][Next]_vars

----------------------------------------------------------------------------
(* The three pipelines as functions of the file content and pii_fields:    *)
(* what process_* returns, [ok, data], and what obfuscate_file returns.    *)

RECURSIVE ReadRows(_, _)
ReadRows(fieldnames, rest) ==
    LET rows == SkipEmptyRows(rest)
    IN  IF rows = <<>> THEN <<>>
        ELSE <<DictReaderRow(fieldnames, Head(rows))>> \o ReadRows(fieldnames, Tail(rows))

\* every row csv.DictReader yields for the content, unmasked
DecodeCsv(rows) ==
    LET rd == ReadFieldnames(NewReader(rows))
    IN  [has_header |-> rd.has_fieldnames, header |-> rd.fieldnames,
         rows |-> ReadRows(rd.fieldnames, rd.rest)]

\* the outer loop of process_json from record i on: [ok, data]
RECURSIVE MaskJsonFrom(_, _, _)
MaskJsonFrom(doc, i, fields) ==
    IF i > Len(IterItems(doc)) THEN [ok |-> TRUE, data |-> doc]
    ELSE LET r == MaskJsonRecord(IterItems(doc)[i], fields)
         IN  IF ~r.ok THEN [ok |-> FALSE, data |-> doc]
             ELSE MaskJsonFrom(IF doc.t = "arr"
                               THEN [doc EXCEPT !.items[i] = <<"", r.rec>>]
                               ELSE doc,
                               i + 1, fields)

RECURSIVE MaskColumns(_, _)
MaskColumns(df, fields) ==
    IF fields = <<>> THEN df
    ELSE MaskColumns(MaskColumn(df, Head(fields)), Tail(fields))

\* the mask loops of process_csv / process_json / process_parquet on a
\* decoded RecordSet: [ok, data]
MaskRecordSet(type, data, fields) ==
    IF type = "csv"
    THEN [ok |-> TRUE,
          data |-> [data EXCEPT !.rows = [i \in 1..Len(data.rows) |->
                                            MaskDict(data.rows[i], fields)]]]
    ELSE IF type = "json"
    THEN IF Iterable(data) THEN MaskJsonFrom(data, 1, fields)
         ELSE [ok |-> FALSE, data |-> data]
    ELSE [ok |-> TRUE, data |-> MaskColumns(data, fields)]

\* the RecordSet decoded from a content, before any mask
Decoded(type, content) == IF type = "csv" THEN DecodeCsv(content.data) ELSE content.data

\* process_csv / process_json / process_parquet
Process(type, content, fields) ==
    IF ~content.valid THEN [ok |-> FALSE, data |-> content.data]
    ELSE MaskRecordSet(type, Decoded(type, content), fields)

\* lines 59-68 of obfuscate_file: process, then convert
Obfuscate(type, content, fields) ==
    LET r == Process(type, content, fields)
    IN  IF r.ok THEN Convert(type, r.data) ELSE EncodeFailure("process")

(* A RecordSet seen as a sequence of records, each a sequence of           *)
(* <<field name, value>> pairs.                                            *)

IsRecordArray(doc) ==
    doc.t = "arr" /\ \A i \in 1..Len(doc.items) : doc.items[i][2].t = "obj"

RowCount(df) == IF df = <<>> THEN 0 ELSE Len(df[1].values)

RecordsOf(type, data) ==
    IF type = "csv" THEN data.rows
    ELSE IF type = "json" THEN [i \in 1..Len(data.items) |-> data.items[i][2].items]
    ELSE [i \in 1..RowCount(data) |-> [j \in 1..Len(data) |-> <<data[j].name, data[j].values[i]>>]]

\* the header row / the columns with their types where they are not masked
HeaderOf(type, data, fields) ==
    IF type = "csv" THEN <<data.has_header, data.header>>
    ELSE IF type = "json" THEN <<>>
    ELSE [j \in 1..Len(data) |->
            <<data[j].name, IF data[j].name \in Range(fields) THEN "" ELSE data[j].dtype>>]

----------------------------------------------------------------------------
(* get_file_type on its own: applied to every candidate identifier.        *)

StemChars == {"a", ".", "/"}
Extensions ==
    { EmptyStr, CsvSuffix, JsonSuffix, ParquetSuffix,
      <<".", "C", "S", "V">>, <<".", "C", "s", "v">>, <<".", "J", "S", "O", "N">>,
      <<"c", "s", "v">>, <<".", "c", "s">>, <<".", "j", "s", "o">>,
      <<".", "p", "a", "r", "q", "u", "e">>, <<".", "t", "x", "t">>,
      CsvSuffix \o <<".">>, CsvSuffix \o JsonSuffix, JsonSuffix \o CsvSuffix,
      ParquetSuffix \o <<".", "g", "z">> }
Identifiers == {stem \o ext : stem \in SeqsUpTo(StemChars, MaxStem), ext \in Extensions}

\* every variable but the named inputs, before anything ran
Idle ==
    /\ s3_bucket = EmptyStr
    /\ file_type = ""
    /\ s3_response = ""
    /\ file_content = [valid |-> FALSE, data |-> <<>>]
    /\ reader = NoReader
    /\ records = <<>>
    /\ row = <<>>
    /\ cursor = 0
    /\ output = <<>>
    /\ error = NoError
    /\ log = <<>>

NoEvent ==
    [file |-> [present |-> FALSE, s |-> EmptyStr],
     fields |-> [kind |-> "absent", items |-> <<>>]]

InitType ==
    /\ event = NoEvent
    /\ pc = "type_input"
    /\ s3_key \in Identifiers
    /\ Idle

ApplyGetFileType ==
    /\ pc = "type_input"
    /\ file_type' = get_file_type(s3_key)
    /\ pc' = "type_done"
    /\ UNCHANGED <<event, s3_bucket, s3_key, s3_response, file_content, reader,
                   records, row, cursor, output, error, log>>

NextType == ApplyGetFileType

SpecType == InitType /\ [][NextType]_vars

----------------------------------------------------------------------------
(* parse_s3_path on its own: applied to every candidate path.              *)

Schemes ==
    { S3Scheme, EmptyStr, <<"s", "3", ":", "/">>, <<"S", "3", ":", "/", "/">>,
      <<"s", "3", ":">>, <<"/">> \o S3Scheme }
PathChars == {"b", "/", "."}
PathCandidates == {sch \o rest : sch \in Schemes, rest \in SeqsUpTo(PathChars, MaxRest)}

InitPath ==
    /\ event \in {[NoEvent EXCEPT !.file = [present |-> TRUE, s |-> p]] : p \in PathCandidates}
    /\ pc = "path_input"
    /\ s3_key = EmptyStr
    /\ Idle

ApplyParsePath ==
    /\ pc = "path_input"
    /\ LET r == parse_s3_path(event.file.s)
       IN  /\ pc' = IF r.ok THEN "path_ok" ELSE "path_failed"
           /\ s3_bucket' = r.bucket
           /\ s3_key' = r.key
           /\ error' = IF r.ok THEN NoError ELSE Raise("ValueError", r.msg)
    /\ UNCHANGED <<event, file_type, s3_response, file_content, reader, records,
                   row, cursor, output, log>>

NextPath == ApplyParsePath

SpecPath == InitPath /\ [][NextPath]_vars

----------------------------------------------------------------------------
(* Properties. *)

\* k is some stem followed by suf
HasSuffix(k, suf) == \E n \in 0..Len(k) : k = SubSeq(k, 1, n) \o suf

\* p is "s3://", some container, a "/", some key (either may be empty)
HasLocationShape(p) ==
    \E i \in (SchemeLen + 1)..Len(p) :
        p = S3Scheme \o SubSeq(p, SchemeLen + 1, i - 1) \o <<"/">> \o SubSeq(p, i + 1, Len(p))

\* the spec's error kinds, told apart by the message of the ValueError
ErrorKind(e) ==
    IF e.type = "ValueError" /\ e.msg \in {MsgNoFile, MsgNoFields} THEN "MissingInput"
    ELSE IF e.type = "ValueError" /\ e.msg = MsgBadPath THEN "InvalidLocation"
    ELSE IF e.type = "ValueError" /\ e.msg = MsgBadType THEN "UnsupportedFormat"
    ELSE IF e.type = "FileNotFoundError" THEN "FileNotFound"
    ELSE e.type

\* the four preconditions of obfuscate_file, stated on the request alone
Violates1 == ~event.file.present \/ Len(event.file.s) = 0
Violates2 == event.fields.kind # "list" \/ Len(event.fields.items) = 0
Violates3 == ~HasLocationShape(event.file.s)
Violates4 ==
    ~\E suf \in {CsvSuffix, JsonSuffix, ParquetSuffix} : HasSuffix(event.file.s, suf)

\* C1: a request that violates a precondition fails with the error of the
\* lowest-numbered violated check (1 MissingInput for the file, 2 MissingInput
\* for the fields, 3 InvalidLocation, 4 UnsupportedFormat), never gets past
\* that check, and never reaches the fetch, decode, mask or encode stage.
C1_FailFastInOrder ==
    (Violates1 \/ Violates2 \/ Violates3 \/ Violates4) =>
        /\ log = <<>> /\ output = <<>> /\ records = <<>> /\ s3_response = ""
        /\ pc \in {"start", "parse", "resolve", "failed"}
        /\ (Violates1 \/ Violates2) => pc \in {"start", "failed"}
        /\ Violates3 => pc # "resolve"
        /\ pc = "failed" =>
            /\ error.type = "ValueError"
            /\ error.msg = IF Violates1 THEN MsgNoFile
                           ELSE IF Violates2 THEN MsgNoFields
                           ELSE IF Violates3 THEN MsgBadPath
                           ELSE MsgBadType
            /\ ErrorKind(error) = IF Violates1 \/ Violates2 THEN "MissingInput"
                                  ELSE IF Violates3 THEN "InvalidLocation"
                                  ELSE "UnsupportedFormat"

\* a request violating checks 1 and 2 at once has failed with check 1's error
C1_Witness ==
    /\ pc = "failed" /\ Violates1 /\ Violates2 /\ Violates3
    /\ event.fields.kind = "tuple"
    /\ error.msg = MsgNoFile

\* C4: parse_s3_path fails without the "s3://" prefix or without a "/" after
\* it, and when it succeeds the remainder was split at its first "/" into a
\* container and a key that are both non-empty.
C4_TwoNonEmptyComponents ==
    LET p == event.file.s
    IN  /\ pc = "path_failed" => error.type = "ValueError"
        /\ ~HasLocationShape(p) => pc # "path_ok"
        /\ pc = "path_ok" =>
            /\ p = S3Scheme \o s3_bucket \o <<"/">> \o s3_key
            /\ \A i \in 1..Len(s3_bucket) : s3_bucket[i] # "/"
            /\ Len(s3_bucket) > 0
            /\ Len(s3_key) > 0

\* C6: NoSuchKey from the storage collaborator becomes FileNotFound naming
\* the key and the container of the request; any other storage failure
\* leaves obfuscate_file unchanged; either way nothing is returned and no
\* decode, mask or encode step runs.
C6_StorageFailures ==
    s3_response \notin {"", "ok"} =>
        /\ pc = "failed"
        /\ ~(Violates1 \/ Violates2 \/ Violates3 \/ Violates4)
        /\ output = <<>> /\ records = <<>> /\ log = <<"fetch">>
        /\ ~file_content.valid
        /\ IF s3_response = "NoSuchKey"
           THEN /\ ErrorKind(error) = "FileNotFound"
                /\ event.file.s = S3Scheme \o error.bucket \o <<"/">> \o error.key
                /\ error.bucket = s3_bucket /\ error.key = s3_key
           ELSE /\ error.cause = s3_response
                /\ error.type = IF s3_response = "AccessDenied" THEN "ClientError"
                                ELSE s3_response

\* the collaborator answered NoSuchKey for a key inside a "directory"
C6_Witness ==
    /\ s3_response = "NoSuchKey" /\ pc = "failed"
    /\ error.type = "FileNotFoundError"
    /\ \E i \in 1..Len(error.key) : error.key[i] = "/"

\* the last 8 characters of an identifier (all of it when shorter)
SuffixWindow(k) == SubSeq(k, IF Len(k) > 8 THEN Len(k) - 7 ELSE 1, Len(k))

\* C7: get_file_type always returns one of csv / json / parquet / unknown,
\* decided by the case-sensitive suffix alone: csv iff the identifier ends in
\* ".csv", json iff in ".json", parquet iff in ".parquet", unknown otherwise.
C7_ResolverBySuffix ==
    pc = "type_done" =>
        /\ file_type \in {"csv", "json", "parquet", "unknown"}
        /\ file_type = "csv" <=> HasSuffix(s3_key, CsvSuffix)
        /\ file_type = "json" <=> HasSuffix(s3_key, JsonSuffix)
        /\ file_type = "parquet" <=> HasSuffix(s3_key, ParquetSuffix)
        /\ \A other \in Identifiers :
              SuffixWindow(other) = SuffixWindow(s3_key) => get_file_type(other) = file_type

\* an identifier ending in ".CSV" resolved to unknown
C7_Witness ==
    /\ pc = "type_done" /\ file_type = "unknown"
    /\ HasSuffix(s3_key, <<".", "C", "S", "V">>)
    /\ Len(s3_key) > 4

\* the mask loops have ended without an exception
MaskComplete == pc \in {"encode", "done"}

\* the content fetched is a RecordSet of its format
IsRecordSet == file_content.valid /\ (file_type = "json" => IsRecordArray(file_content.data))

\* the RecordSet as process_* leaves it
Masked == RecordsOf(file_type, Obfuscated)
Original == RecordsOf(file_type, Decoded(file_type, file_content))

\* C2: after masking, every record holds "***" at each of its fields named
\* in pii_fields, its original value at every other field, and the same keys
\* in the same order; the records, their order and the header / columns are
\* unchanged.
C2_MaskExactlyTheNamedFields ==
    (MaskComplete /\ IsRecordSet) =>
        /\ Len(Masked) = Len(Original)
        /\ \A i \in 1..Len(Original) :
            /\ Keys(Masked[i]) = Keys(Original[i])
            /\ \A n \in 1..Len(Original[i]) :
                 Masked[i][n][2] = IF Original[i][n][1] \in Range(pii_fields)
                                   THEN Sentinel
                                   ELSE Original[i][n][2]
        /\ file_type = "csv" =>
             /\ reader.has_fieldnames = (file_content.data # <<>>)
             /\ reader.has_fieldnames => reader.fieldnames = Head(file_content.data)
        /\ file_type = "parquet" => ColumnNames(records) = ColumnNames(file_content.data)

\* two records were masked: one whose masked field held a non-string, and
\* pii_fields names a field that neither record has
C2_Witness ==
    /\ pc = "done" /\ IsRecordSet /\ Len(Original) = 2
    /\ \E i \in 1..2 : \E n \in 1..Len(Original[i]) :
          /\ Original[i][n][1] \in Range(pii_fields)
          /\ Original[i][n][2].t # "str"
          /\ Masked[i][n][2] = Sentinel
    /\ \E f \in Range(pii_fields) : \A i \in 1..2 : ~HasKey(Original[i], f)

\* pii_fields without its repeated names (the first occurrence of each kept)
RECURSIVE Distinct(_)
Distinct(f) ==
    IF f = <<>> THEN <<>>
    ELSE LET init == Distinct(SubSeq(f, 1, Len(f) - 1))
             last == f[Len(f)]
         IN  IF last \in Range(init) THEN init ELSE Append(init, last)

\* C3: masking the masked RecordSet again with the same pii_fields changes
\* nothing, and masking with the repeated names of pii_fields removed gives
\* the same RecordSet.
C3_IdempotentAndDuplicateInsensitive ==
    (MaskComplete /\ IsRecordSet) =>
        /\ MaskRecordSet(file_type, Obfuscated, pii_fields) = [ok |-> TRUE, data |-> Obfuscated]
        /\ MaskRecordSet(file_type, Decoded(file_type, file_content), Distinct(pii_fields))
             = [ok |-> TRUE, data |-> Obfuscated]

\* a RecordSet masked with a pii_fields that repeats a name of its records
C3_Witness ==
    /\ pc = "done" /\ IsRecordSet
    /\ Distinct(pii_fields) # pii_fields
    /\ \E i \in 1..Len(Original) : \E n \in 1..Len(Original[i]) :
          /\ Original[i][n][1] \in Range(pii_fields)
          /\ Original[i][n][2] # Sentinel
          /\ Masked[i][n][2] = Sentinel

\* stage a is never logged before stage b
NeverBefore(a, b) ==
    \A i \in 1..Len(log) : \A j \in (i + 1)..Len(log) : ~(log[i] = a /\ log[j] = b)

\* every record of the file has been decoded / masked
AllDecoded ==
    IF file_type = "csv" THEN SkipEmptyRows(ReadFieldnames(reader).rest) = <<>>
    ELSE "decode" \in Range(log)
AllMasked ==
    IF file_type = "csv"
    THEN AllDecoded /\ row = <<>> /\ Len(records) = Len(DecodeCsv(file_content.data).rows)
    ELSE IF file_type = "json" THEN cursor = Len(IterItems(records)) + 1
    ELSE cursor = Len(pii_fields) + 1

\* C8 as stated: in every format all records are decoded before any record
\* is masked, and all are masked before encoding starts.
C8_DecodeThenMaskThenEncode ==
    /\ NeverBefore("mask", "decode")
    /\ NeverBefore("encode", "mask") /\ NeverBefore("encode", "decode")
    /\ "mask" \in Range(log) => AllDecoded
    /\ "encode" \in Range(log) => AllMasked

\* C8 as amended: JSON and Parquet decode everything before the first mask;
\* CSV decodes and masks row by row, each mask directly after the decode of
\* its row; in every format all records are decoded and masked before
\* encoding starts, and nothing is decoded or masked after it.
C8_StagesPerFormat ==
    /\ NeverBefore("encode", "mask") /\ NeverBefore("encode", "decode")
    /\ "encode" \in Range(log) => AllMasked
    /\ file_type \in {"json", "parquet"} =>
        /\ NeverBefore("mask", "decode")
        /\ "mask" \in Range(log) => AllDecoded
    /\ file_type = "csv" =>
        /\ \A j \in 1..Len(log) : log[j] = "mask" => (j > 1 /\ log[j - 1] = "decode")
        /\ pc = "csv_mask" => (log[Len(log)] = "decode" /\ Len(row) > 0)
        /\ pc \in {"csv_next", "csv_mask", "encode", "done"} =>
             Len(records) + (IF pc = "csv_mask" THEN 1 ELSE 0)
               = Len(DecodeCsv(file_content.data).rows)
                 - Len(ReadRows(<<>>, ReadFieldnames(reader).rest))

\* a CSV file of two rows went through decode, mask, decode, mask, encode
C8_Witness ==
    /\ pc = "done" /\ file_type = "csv"
    /\ log = <<"fetch", "decode", "mask", "decode", "mask", "encode">>
    /\ Len(records) = 2

\* C5 as stated: a JSON content that is undecodable, or whose top level is
\* not an array of objects, makes the pipeline fail and produce no output.
C5_RejectsNonRecordArrays ==
    (file_type = "json" /\ s3_response = "ok" /\ ~IsRecordSet) =>
        /\ pc \notin {"encode", "done"}
        /\ output = <<>>

\* two RecordSets of a format with the same header / columns, the same
\* number of records, the same keys in the same order in each record, and
\* the same value at every field that is not in fields
LowEquivalent(type, d1, d2, fields) ==
    LET r1 == RecordsOf(type, d1)
        r2 == RecordsOf(type, d2)
    IN  /\ type = "json" => (IsRecordArray(d1) /\ IsRecordArray(d2))
        /\ Len(r1) = Len(r2)
        /\ HeaderOf(type, d1, fields) = HeaderOf(type, d2, fields)
        /\ \A i \in 1..Len(r1) :
            /\ Keys(r1[i]) = Keys(r2[i])
            /\ \A n \in 1..Len(r1[i]) :
                 r1[i][n][1] \notin Range(fields) => r1[i][n][2] = r2[i][n][2]

\* the contents the file could have held instead, differing from it only in
\* the values of masked fields
Alternatives ==
    {c \in ContentsFor(file_type) :
        /\ c.valid
        /\ LowEquivalent(file_type, Decoded(file_type, file_content),
                         Decoded(file_type, c), pii_fields)}

\* C9: the bytes returned do not depend on the original values of the masked
\* fields: every content with the same keys and the same values outside
\* pii_fields is turned into the same output.
C9_OutputIndependentOfMaskedValues ==
    (pc = "done" /\ IsRecordSet) =>
        \A c \in Alternatives : Obfuscate(file_type, c, pii_fields) = Encoded(output)

\* the file returned has an alternative that differs from it in a masked value
C9_Witness ==
    /\ pc = "done" /\ IsRecordSet
    /\ \E c \in Alternatives :
          /\ Decoded(file_type, c) # Decoded(file_type, file_content)
          /\ Len(RecordsOf(file_type, Decoded(file_type, c))) = 2

\* seq occurs in out as a run of consecutive tokens
OccursIn(seq, out) ==
    \E k \in 0..(Len(out) - Len(seq)) : SubSeq(out, k + 1, k + Len(seq)) = seq

\* v is a dict or a list that holds, at any depth, a key named in fields
RECURSIVE HoldsNamedKey(_, _)
HoldsNamedKey(v, fields) ==
    /\ v.t \in {"obj", "arr"}
    /\ \E n \in 1..Len(v.items) :
          \/ v.t = "obj" /\ v.items[n][1] \in Range(fields)
          \/ HoldsNamedKey(v.items[n][2], fields)

\* C10: the JSON mask looks at the top-level keys of each record only: a
\* nested dict or list under a key that is not in pii_fields stays exactly
\* as decoded, whatever keys it holds, and is written unmasked; a nested
\* value is replaced by "***", as a whole, only when its own key is named.
C10_TopLevelKeysOnly ==
    (MaskComplete /\ file_type = "json" /\ IsRecordSet) =>
        \A i \in 1..Len(Original) : \A n \in 1..Len(Original[i]) :
            LET k == Original[i][n][1]
                v == Original[i][n][2]
            IN  v.t \in {"obj", "arr"} =>
                  /\ Masked[i][n][1] = k
                  /\ k \notin Range(pii_fields) =>
                       /\ Masked[i][n][2] = v
                       /\ pc = "done" => OccursIn(<<"\"", k, "\"", ": ">> \o Dumps(v, 2), output)
                  /\ k \in Range(pii_fields) =>
                       /\ Masked[i][n][2] = Sentinel
                       /\ pc = "done" => OccursIn(<<"\"", k, "\"", ": ">> \o Dumps(Sentinel, 2), output)

\* a record was written whose unnamed key holds a nested dict with a named key
C10_Witness ==
    /\ pc = "done" /\ file_type = "json" /\ IsRecordSet
    /\ \E i \in 1..Len(Original) : \E n \in 1..Len(Original[i]) :
          /\ Original[i][n][1] \notin Range(pii_fields)
          /\ HoldsNamedKey(Original[i][n][2], pii_fields)
          /\ Masked[i][n][2] = Original[i][n][2]

\* the step-by-step run of obfuscate_file and the pipelines as functions
\* agree on what is returned and on whether the call fails
StepsAgreeWithFunctions ==
    /\ pc = "done" => Obfuscate(file_type, file_content, pii_fields) = Encoded(output)
    /\ (pc = "failed" /\ s3_response = "ok") =>
          ~Obfuscate(file_type, file_content, pii_fields).ok

====
